---- MODULE Spec2Model ----
(***************************************************************************)
(* Fair resource sharing among virtual machines (os_da.py): the allocation *)
(* engine CloudResourceGame with its characteristic function, the exact    *)
(* Shapley-value enumeration, the Shapley-based allocation and the         *)
(* proportional allocation, run in the order of main().                    *)
(*                                                                         *)
(* Python integers are unbounded and are modelled by TLA+ integers.  Every *)
(* true division `/` of the source yields a Python float (IEEE-754         *)
(* binary64, round to nearest, ties to even); floats are modelled bit for  *)
(* bit as dyadic rationals  (-1)^neg * m * 2^e  whose mantissa m is an     *)
(* arbitrary-precision natural, rounded to MantBits significant bits after *)
(* each float operation.  The exponent range of binary64 is not modelled:  *)
(* the magnitudes that occur stay far inside it.                           *)
(***************************************************************************)
EXTENDS Integers, Sequences, FiniteSets, TLC

(***************************************************************************)
(* Arbitrary-precision naturals: little-endian sequences of limbs in       *)
(* 0..Base-1 without leading zero limbs; zero is the empty sequence.       *)
(***************************************************************************)
Base == 2^15

LimbBits == CHOOSE k \in 1..30 : 2^k = Base

\* Significant bits of a Python float (binary64).
MantBits == 53

Max(a, b) == IF a >= b THEN a ELSE b

Min(a, b) == IF a <= b THEN a ELSE b

Abs(k) == IF k < 0 THEN -k ELSE k

NatFromInt(k) ==
    IF k = 0 THEN <<>>
    ELSE IF k < Base THEN <<k>>
    ELSE <<k % Base, k \div Base>>

RECURSIVE NatTrim(_)
NatTrim(a) ==
    IF a = <<>> \/ a[Len(a)] # 0 THEN a ELSE NatTrim(SubSeq(a, 1, Len(a) - 1))

RECURSIVE NatCmpFrom(_, _, _)
NatCmpFrom(a, b, i) ==
    IF i = 0 THEN 0
    ELSE IF a[i] # b[i] THEN (IF a[i] < b[i] THEN -1 ELSE 1)
    ELSE NatCmpFrom(a, b, i - 1)

NatCmp(a, b) ==
    IF Len(a) # Len(b) THEN (IF Len(a) < Len(b) THEN -1 ELSE 1)
    ELSE NatCmpFrom(a, b, Len(a))

RECURSIVE NatAddFrom(_, _, _, _)
NatAddFrom(a, b, i, carry) ==
    IF i > Len(a) /\ i > Len(b)
    THEN (IF carry = 0 THEN <<>> ELSE <<carry>>)
    ELSE LET s == (IF i <= Len(a) THEN a[i] ELSE 0)
                  + (IF i <= Len(b) THEN b[i] ELSE 0) + carry
         IN  <<s % Base>> \o NatAddFrom(a, b, i + 1, s \div Base)

NatAdd(a, b) == NatAddFrom(a, b, 1, 0)

\* 2*a + bit
NatDouble(a, bit) == NatAddFrom(a, a, 1, bit)

RECURSIVE NatSubFrom(_, _, _, _)
NatSubFrom(a, b, i, borrow) ==
    IF i > Len(a) THEN <<>>
    ELSE LET d == a[i] - (IF i <= Len(b) THEN b[i] ELSE 0) - borrow
         IN  <<IF d < 0 THEN d + Base ELSE d>>
             \o NatSubFrom(a, b, i + 1, IF d < 0 THEN 1 ELSE 0)

\* a - b for a >= b
NatSub(a, b) == NatTrim(NatSubFrom(a, b, 1, 0))

RECURSIVE NatMulFrom(_, _, _, _)
NatMulFrom(a, k, i, carry) ==
    IF i > Len(a) THEN NatFromInt(carry)
    ELSE LET p == a[i] * k + carry
         IN  <<p % Base>> \o NatMulFrom(a, k, i + 1, p \div Base)

\* a * k for 0 <= k < Base
NatMulSmall(a, k) == IF k = 0 \/ a = <<>> THEN <<>> ELSE NatMulFrom(a, k, 1, 0)

\* a * 2^r
NatShl(a, r) ==
    IF a = <<>> \/ r = 0 THEN a
    ELSE [i \in 1..(r \div LimbBits) |-> 0] \o NatMulSmall(a, 2^(r % LimbBits))

\* floor(a / 2^r)
NatShr(a, r) ==
    LET q == r \div LimbBits
        s == r % LimbBits
        b == SubSeq(a, q + 1, Len(a))
        lo == 2^s
        hi == 2^(LimbBits - s)
    IN  IF s = 0 THEN b
        ELSE NatTrim([i \in 1..Len(b) |->
                 (b[i] \div lo) + (IF i < Len(b) THEN (b[i + 1] % lo) * hi ELSE 0)])

RECURSIVE BitLenSmall(_)
BitLenSmall(x) == IF x = 0 THEN 0 ELSE 1 + BitLenSmall(x \div 2)

NatBitLen(a) ==
    IF a = <<>> THEN 0 ELSE LimbBits * (Len(a) - 1) + BitLenSmall(a[Len(a)])

\* bit i (bit 0 is the least significant) of a
NatBit(a, i) ==
    LET l == (i \div LimbBits) + 1
    IN  IF l > Len(a) THEN 0 ELSE (a[l] \div 2^(i % LimbBits)) % 2

\* a mod 2^r = 0
NatLowBitsZero(a, r) ==
    LET q == r \div LimbBits
    IN  /\ \A i \in 1..Min(q, Len(a)) : a[i] = 0
        /\ q + 1 <= Len(a) => a[q + 1] % 2^(r % LimbBits) = 0

RECURSIVE TrailingZerosSmall(_)
TrailingZerosSmall(x) == IF x % 2 = 1 THEN 0 ELSE 1 + TrailingZerosSmall(x \div 2)

RECURSIVE NatTrailingZerosFrom(_, _)
NatTrailingZerosFrom(a, i) ==
    IF a[i] # 0 THEN LimbBits * (i - 1) + TrailingZerosSmall(a[i])
    ELSE NatTrailingZerosFrom(a, i + 1)

\* number of trailing zero bits of a # 0
NatTrailingZeros(a) == NatTrailingZerosFrom(a, 1)

\* The quotient digit floor(cur / den) of one long-division step, for
\* cur < den * Base and den normalised (its top limb is at least Base / 2):
\* the estimate from the two top limbs of cur is at most 2 too large.
QuotDigit(cur, den) ==
    LET l == Len(den)
        top == (IF Len(cur) > l THEN cur[l + 1] * Base ELSE 0) + cur[l]
        qhat == Min(Base - 1, top \div den[l])
    IN  IF Len(cur) < l THEN 0
        ELSE IF NatCmp(NatMulSmall(den, qhat), cur) <= 0 THEN qhat
        ELSE IF NatCmp(NatMulSmall(den, qhat - 1), cur) <= 0 THEN qhat - 1
        ELSE qhat - 2

\* Long division, one numerator limb per step, from limb i down to limb 1;
\* q holds the quotient digits found so far.
RECURSIVE NatDivLimbs(_, _, _, _, _)
NatDivLimbs(num, den, i, rem, q) ==
    IF i = 0 THEN [q |-> q, r |-> rem]
    ELSE LET cur == NatTrim(<<num[i]>> \o rem)
             d == QuotDigit(cur, den)
         IN  IF d = 0
             THEN NatDivLimbs(num, den, i - 1, cur, <<0>> \o q)
             ELSE NatDivLimbs(num, den, i - 1,
                      NatSub(cur, NatMulSmall(den, d)), <<d>> \o q)

\* [q |-> floor(num / den), r |-> num mod den] for den # 0
NatDivMod(num, den) ==
    IF NatCmp(num, den) < 0 THEN [q |-> <<>>, r |-> num]
    ELSE LET s == LimbBits - BitLenSmall(den[Len(den)])
             nn == NatShl(num, s)
             d == NatDivLimbs(nn, NatShl(den, s), Len(nn), <<>>, <<>>)
         IN  [q |-> NatTrim(d.q), r |-> NatShr(d.r, s)]

(***************************************************************************)
(* Dyadic rationals (-1)^neg * m * 2^e in canonical form (m odd, or the    *)
(* zero value), so that two values are equal exactly when their records    *)
(* are.  Python integers embed exactly; -0.0 is identified with 0.         *)
(***************************************************************************)
Zero == [neg |-> FALSE, m |-> <<>>, e |-> 0]

Dy(neg, m, e) ==
    IF m = <<>> THEN Zero
    ELSE LET tz == NatTrailingZeros(m)
         IN  [neg |-> neg, m |-> NatShr(m, tz), e |-> e + tz]

FromInt(k) == Dy(k < 0, NatFromInt(Abs(k)), 0)

DySign(x) == IF x.m = <<>> THEN 0 ELSE IF x.neg THEN -1 ELSE 1

DyNeg(x) == IF x.m = <<>> THEN x ELSE [x EXCEPT !.neg = ~x.neg]

DyAbs(x) == [x EXCEPT !.neg = FALSE]

\* x * 2^k
DyScale(x, k) == IF x.m = <<>> THEN x ELSE [x EXCEPT !.e = @ + k]

\* exact sum
DyAdd(x, y) ==
    LET e == Min(x.e, y.e)
        mx == NatShl(x.m, x.e - e)
        my == NatShl(y.m, y.e - e)
        c == NatCmp(mx, my)
    IN  IF x.neg = y.neg THEN Dy(x.neg, NatAdd(mx, my), e)
        ELSE IF c = 0 THEN Zero
        ELSE IF c > 0 THEN Dy(x.neg, NatSub(mx, my), e)
        ELSE Dy(y.neg, NatSub(my, mx), e)

DySub(x, y) == DyAdd(x, DyNeg(y))

\* -1, 0, 1 as x < y, x = y, x > y
DyCmp(x, y) == DySign(DySub(x, y))

DyLeq(x, y) == DyCmp(x, y) <= 0

\* exact product with an integer, |k| < Base
DyMulInt(k, x) ==
    IF k = 0 THEN Zero ELSE Dy(x.neg # (k < 0), NatMulSmall(x.m, Abs(k)), x.e)

(***************************************************************************)
(* binary64 arithmetic: the exact result rounded to MantBits significant   *)
(* bits, to nearest, ties to even.  sticky tells that the exact value lies *)
(* strictly above m * 2^e (a division with a remainder).                   *)
(***************************************************************************)
RoundNat(neg, m, e, sticky) ==
    LET l == NatBitLen(m)
        r == l - MantBits
        q == NatShr(m, r)
        guard == NatBit(m, r - 1) = 1
        rest == sticky \/ ~NatLowBitsZero(m, r - 1)
        up == guard /\ (rest \/ q[1] % 2 = 1)
    IN  IF l <= MantBits THEN Dy(neg, m, e)
        ELSE Dy(neg, IF up THEN NatAdd(q, <<1>>) ELSE q, e + r)

Round(x) == RoundNat(x.neg, x.m, x.e, FALSE)

\* float + float
FAdd(x, y) ==
    IF x.m = <<>> THEN y
    ELSE IF y.m = <<>> THEN x
    ELSE Round(DyAdd(x, y))

\* int * float  (the int converts exactly)
FMulInt(k, x) ==
    IF k = 0 \/ x.m = <<>> THEN Zero ELSE Round(DyMulInt(k, x))

\* float / float, y # 0: the quotient is computed to MantBits + 2 bits at
\* least, the remainder is the sticky bit.
FDiv(x, y) ==
    IF x.m = <<>> THEN Zero
    ELSE LET k == Max(0, MantBits + 2 + NatBitLen(y.m) - NatBitLen(x.m))
             d == NatDivMod(NatShl(x.m, k), y.m)
         IN  RoundNat(x.neg # y.neg, d.q, x.e - y.e - k, d.r # <<>>)

\* int / int: Python's true division, correctly rounded
TrueDiv(a, b) == FDiv(FromInt(a), FromInt(b))

\* Python max(a, b), were line 94 to take the larger of the two
PyMax(a, b) == IF DyCmp(b, a) > 0 THEN b ELSE a

\* Python min(a, b): a unless b < a
PyMin(a, b) == IF DyCmp(b, a) < 0 THEN b ELSE a

(***************************************************************************)
(* The program.  pc is main()'s position: "start" before line 182,         *)
(* "constructed" after the engine is built, "allocated" after line 185,    *)
(* "done" after line 186, "crashed" when line 186 raised.                  *)
(* Indices are those of range(self.n), 0..n-1; VmAt(i) is self.vms[i].     *)
(***************************************************************************)
VARIABLES
    pc,               \* position in main()
    vms,              \* self.vms: sequence of VM records
    total_resources,  \* self.total_resources
    n,                \* self.n
    shapley_values,   \* local of allocate_resources (line 81), floats
    shapley_numer,    \* the same values in exact arithmetic, times n!
    shapley_alloc,    \* main's shapley_alloc (line 185)
    prop_alloc        \* main's prop_alloc (line 186)

vars == <<pc, vms, total_resources, n, shapley_values, shapley_numer,
          shapley_alloc, prop_alloc>>

\* Largest registry, largest demand and largest resource pool drawn.
MaxN == 3

MaxDemand == 2

MaxTotal == 4

\* Largest demand and pool drawn by a caller that passes valid values only.
MaxValidDemand == 7

MaxValidTotal == 9

\* Values a validating constructor would have to reject.
InvalidValues == {-1}

VM(id, demand) == [id |-> id, demand |-> demand]

VmAt(i) == vms[i + 1]

RECURSIVE Factorial(_)
Factorial(k) == IF k <= 0 THEN 1 ELSE k * Factorial(k - 1)

RECURSIVE SumDemand(_)
SumDemand(coalition) ==
    IF coalition = <<>> THEN 0
    ELSE Head(coalition).demand + SumDemand(Tail(coalition))

characteristic_function(coalition) == Min(SumDemand(coalition), total_resources)

\* itertools.combinations(range(first, k), s): the strictly increasing
\* s-tuples over first..k-1 in lexicographic order.
RECURSIVE Combinations(_, _, _)
Combinations(first, k, s) ==
    IF s = 0 THEN << <<>> >>
    ELSE IF first > k - s THEN <<>>
    ELSE LET with == Combinations(first + 1, k, s - 1)
         IN  [j \in 1..Len(with) |-> <<first>> \o with[j]]
             \o Combinations(first + 1, k, s)

\* The loop of line 40 were it range(1, self.n): sizes 1..n-1 only.
RECURSIVE CoalitionsBelow(_)
CoalitionsBelow(size) ==
    IF size >= n THEN <<>>
    ELSE Combinations(0, n, size) \o CoalitionsBelow(size + 1)

\* The coalitions in the order the two outer loops visit them
\* (lines 40 and 42): sizes 1..n, each size in lexicographic order.
RECURSIVE CoalitionsFrom(_)
CoalitionsFrom(size) ==
    IF size > n THEN <<>>
    ELSE Combinations(0, n, size) \o CoalitionsFrom(size + 1)

Coalitions == CoalitionsFrom(1)

Members(coalition_indices) == [j \in 1..Len(coalition_indices) |-> VmAt(coalition_indices[j])]

Contains(coalition_indices, vm_idx) ==
    \E j \in 1..Len(coalition_indices) : coalition_indices[j] = vm_idx

Without(coalition_indices, vm_idx) ==
    SelectSeq(coalition_indices, LAMBDA i : i # vm_idx)

\* Lines 51-55 were value_without never subtracted.
MarginalNoSubtract(coalition_indices, vm_idx) ==
    characteristic_function(Members(coalition_indices))

\* lines 51-55
MarginalContribution(coalition_indices, vm_idx) ==
    characteristic_function(Members(coalition_indices))
    - characteristic_function(Members(Without(coalition_indices, vm_idx)))

\* Line 59 were it math.factorial(self.n - len(sub_coalition)).
WeightNumerOffByOne(sub, k) == Factorial(sub) * Factorial(k - sub)

\* lines 58-60: the integer numerator and denominator of the weight of a
\* sub_coalition of length sub among k VMs, and the float their true
\* division yields.  The floats depend on (sub, k) alone and are tabulated.
WeightNumer(sub, k) == Factorial(sub) * Factorial(k - sub - 1)

WeightDenom(k) == Factorial(k)

Weights ==
    [k \in 1..MaxN |->
        [sub \in 0..(k - 1) |-> TrueDiv(WeightNumer(sub, k), WeightDenom(k))]]

Weight(sub) == Weights[n][sub]

\* line 63, for one vm_idx: the additions into shapley_values[vm_idx] in
\* the order the loops make them, over the coalitions cs that hold vm_idx.
RECURSIVE Accumulate(_, _, _)
Accumulate(cs, vm_idx, acc) ==
    IF cs = <<>> THEN acc
    ELSE Accumulate(Tail(cs), vm_idx,
             FAdd(acc, FMulInt(MarginalContribution(Head(cs), vm_idx),
                               Weight(Len(Head(cs)) - 1))))

\* The same sum with every operation exact, on the common denominator n!.
RECURSIVE AccumulateNumer(_, _)
AccumulateNumer(cs, vm_idx) ==
    IF cs = <<>> THEN 0
    ELSE MarginalContribution(Head(cs), vm_idx) * WeightNumer(Len(Head(cs)) - 1, n)
         + AccumulateNumer(Tail(cs), vm_idx)

CoalitionsOf(vm_idx) == SelectSeq(Coalitions, LAMBDA c : Contains(c, vm_idx))

calculate_shapley_values ==
    [j \in 1..n |-> Accumulate(CoalitionsOf(j - 1), j - 1, Zero)]

ShapleyNumerators ==
    [j \in 1..n |-> AccumulateNumer(CoalitionsOf(j - 1), j - 1)]

(***************************************************************************)
(* sum(shapley_values), line 82.  The builtin starts from the int 0 and    *)
(* adds the first float to it exactly; how it adds the rest depends on the *)
(* interpreter: CPython up to 3.11 adds left to right, CPython from 3.12   *)
(* on uses Neumaier's compensated summation.  Both are outcomes.           *)
(***************************************************************************)
FSub(x, y) == FAdd(x, DyNeg(y))

RECURSIVE SumPlain(_, _)
SumPlain(xs, f) == IF xs = <<>> THEN f ELSE SumPlain(Tail(xs), FAdd(f, Head(xs)))

RECURSIVE SumNeumaier(_, _, _)
SumNeumaier(xs, f, c) ==
    IF xs = <<>> THEN (IF c = Zero THEN f ELSE FAdd(f, c))
    ELSE LET x == Head(xs)
             t == FAdd(f, x)
         IN  SumNeumaier(Tail(xs), t,
                 IF DyCmp(DyAbs(f), DyAbs(x)) >= 0
                 THEN FAdd(c, FAdd(FSub(f, t), x))
                 ELSE FAdd(c, FAdd(FSub(x, t), f)))

PySums(xs) ==
    IF xs = <<>> THEN {Zero}
    ELSE {SumPlain(Tail(xs), Head(xs)), SumNeumaier(Tail(xs), Head(xs), Zero)}

\* lines 85-96, given the Shapley values and their sum
Allocations(sv, total_shapley) ==
    IF DyCmp(total_shapley, Zero) <= 0
    THEN [j \in 1..n |-> FromInt(0)]
    ELSE [j \in 1..n |->
             PyMin(FMulInt(total_resources, FDiv(sv[j], total_shapley)),
                   FromInt(vms[j].demand))]

\* Line 72 were its comparison strict.
NoScarcityStrict(total_demand) == total_demand < total_resources

\* line 72
NoScarcity(total_demand) == total_demand <= total_resources

\* lines 69-76; the division of line 76 raises ZeroDivisionError when
\* total_demand is 0 and there is a VM to divide for.
ProportionalRaises ==
    /\ ~NoScarcity(SumDemand(vms))
    /\ SumDemand(vms) = 0
    /\ n > 0

calculate_proportional_allocation ==
    LET total_demand == SumDemand(vms)
    IN  IF NoScarcity(total_demand)
        THEN [j \in 1..n |-> FromInt(vms[j].demand)]
        ELSE [j \in 1..n |->
                 FMulInt(total_resources, TrueDiv(vms[j].demand, total_demand))]

(***************************************************************************)
(* Actions                                                                 *)
(***************************************************************************)
Init ==
    /\ pc = "start"
    /\ vms = <<>>
    /\ total_resources = 0
    /\ n = 0
    /\ shapley_values = <<>>
    /\ shapley_numer = <<>>
    /\ shapley_alloc = <<>>
    /\ prop_alloc = <<>>

\* lines 174-182: the VM list is built and CloudResourceGame.__init__
\* stores its arguments; neither constructor checks anything.
Construct(demands, total) ==
    /\ pc = "start"
    /\ pc' = "constructed"
    /\ vms' = [j \in 1..Len(demands) |-> VM(j, demands[j])]
    /\ total_resources' = total
    /\ n' = Len(demands)
    /\ UNCHANGED <<shapley_values, shapley_numer, shapley_alloc, prop_alloc>>

\* line 185: allocate_resources(), calculate_shapley_values() included
AllocateResources ==
    /\ pc = "constructed"
    /\ LET sv == calculate_shapley_values
       IN  /\ shapley_values' = sv
           /\ \E total_shapley \in PySums(sv) :
                  shapley_alloc' = Allocations(sv, total_shapley)
    /\ shapley_numer' = ShapleyNumerators
    /\ pc' = "allocated"
    /\ UNCHANGED <<vms, total_resources, n, prop_alloc>>

\* line 186: calculate_proportional_allocation()
CalculateProportionalAllocation ==
    /\ pc = "allocated"
    /\ IF ProportionalRaises
       THEN pc' = "crashed" /\ prop_alloc' = <<>>
       ELSE pc' = "done" /\ prop_alloc' = calculate_proportional_allocation
    /\ UNCHANGED <<vms, total_resources, n, shapley_values, shapley_numer,
                   shapley_alloc>>

DemandLists(values) == UNION {[1..k -> values] : k \in 0..MaxN}

\* Any caller: demands and pool over the whole range, invalid values too.
ConstructAny ==
    \E demands \in DemandLists((0..MaxDemand) \cup InvalidValues),
       total \in (0..MaxTotal) \cup InvalidValues :
        Construct(demands, total)

Next == ConstructAny \/ AllocateResources \/ CalculateProportionalAllocation

Spec == Init /\ [][Next]_vars

\* A caller that keeps to the documented contract, as main() does:
\* non-negative demands and pool, over a range wide enough for the
\* roundings of three-VM registries to show.
ConstructValid ==
    \E demands \in DemandLists(0..MaxValidDemand), total \in 0..MaxValidTotal :
        Construct(demands, total)

NextValid == ConstructValid \/ AllocateResources \/ CalculateProportionalAllocation

SpecValid == Init /\ [][NextValid]_vars

(***************************************************************************)
(* Properties.  The values compared are those the actions stored.          *)
(***************************************************************************)
\* every demand and the pool are non-negative
ValidInputs ==
    /\ \A j \in 1..n : vms[j].demand >= 0
    /\ total_resources >= 0

\* allocate_resources() has returned
Allocated == pc \in {"allocated", "done", "crashed"}

TotalDemand == SumDemand(vms)

\* v(all consumers) = min(sum of all demands, total_resources)
FullValue == Min(TotalDemand, total_resources)

RECURSIVE SumInt(_)
SumInt(xs) == IF xs = <<>> THEN 0 ELSE Head(xs) + SumInt(Tail(xs))

\* the exact, unrounded sum of a sequence of floats
RECURSIVE SumExact(_)
SumExact(xs) == IF xs = <<>> THEN Zero ELSE DyAdd(Head(xs), SumExact(Tail(xs)))

\* |x - y| <= 2^-30 * |y|, a relative tolerance just under 1e-9
Close(x, y) == DyLeq(DyAbs(DySub(x, y)), DyScale(DyAbs(y), -30))

AllZero(xs) == \A j \in 1..Len(xs) : xs[j] = Zero

\* C1 (efficiency): for non-negative demands and pool, the Shapley values
\* computed in exact arithmetic sum to v(all consumers) = min(sum of all
\* demands, total_resources); on the common denominator n! the numerators
\* sum to n! * v(all consumers).  The floats the code returns sum to the
\* same value within the relative tolerance.
C1_Efficiency ==
    (Allocated /\ ValidInputs) =>
        /\ Len(shapley_numer) = n
        /\ SumInt(shapley_numer) = Factorial(n) * FullValue
        /\ Close(SumExact(shapley_values), FromInt(FullValue))

\* three consumers competing for a pool smaller than their joint demand,
\* one of them with a share that is no multiple of 1/2
C1_Witness ==
    /\ Allocated /\ ValidInputs /\ n = 3
    /\ TotalDemand > total_resources /\ total_resources > 0
    /\ \E j \in 1..n : shapley_numer[j] % 3 # 0

\* C5 (construction rejects invalid input): no engine with a negative
\* demand or a negative total_resources gets past construction.
C5_ConstructionRejectsNegative == pc # "start" => ValidInputs

Demand(j) == FromInt(vms[j].demand)

\* C2 (cap invariant): allocate_resources returns n entries, entry i
\* within 0 .. demand[i].
C2_CapInvariant ==
    Allocated =>
        /\ Len(shapley_alloc) = n
        /\ \A j \in 1..n : /\ DyLeq(Zero, shapley_alloc[j])
                           /\ DyLeq(shapley_alloc[j], Demand(j))

\* C3 (proportional allocation): the call returns n entries, entry i
\* within 0 .. demand[i], the entries summing to min(D, total_resources):
\* the demands themselves when D <= total_resources, otherwise
\* total_resources * demand[i] / D.
C3_Proportional ==
    /\ pc # "crashed"
    /\ pc = "done" =>
        /\ Len(prop_alloc) = n
        /\ \A j \in 1..n : /\ DyLeq(Zero, prop_alloc[j])
                           /\ DyLeq(prop_alloc[j], Demand(j))
        /\ SumExact(prop_alloc) = FromInt(FullValue)
        /\ \A j \in 1..n :
              IF TotalDemand <= total_resources
              THEN prop_alloc[j] = Demand(j)
              ELSE DyMulInt(TotalDemand, prop_alloc[j])
                   = FromInt(total_resources * vms[j].demand)

\* C4 (no scarcity): when the demands sum to at most total_resources both
\* methods return exactly demand[i] for every consumer i.
C4_NoScarcity ==
    TotalDemand <= total_resources =>
        /\ Allocated => \A j \in 1..n : shapley_alloc[j] = Demand(j)
        /\ pc = "done" => \A j \in 1..n : prop_alloc[j] = Demand(j)

\* C6 (symmetry): two consumers with equal demands get equal Shapley
\* values and equal Shapley-based allocations, wherever they stand in the
\* registry.
C6_Symmetry ==
    Allocated =>
        \A i, j \in 1..n :
            vms[i].demand = vms[j].demand =>
                /\ shapley_values[i] = shapley_values[j]
                /\ shapley_alloc[i] = shapley_alloc[j]

\* C7 (null player): a consumer with demand 0 gets Shapley value 0 and
\* allocation 0, whatever the registry and the pool.
C7_NullPlayer ==
    Allocated =>
        \A j \in 1..n :
            vms[j].demand = 0 =>
                /\ shapley_values[j] = Zero
                /\ shapley_numer[j] = 0
                /\ shapley_alloc[j] = Zero

\* a null player next to a consumer that is allocated something
C7_Witness ==
    /\ Allocated
    /\ \E j, k \in 1..n : vms[j].demand = 0 /\ DyCmp(shapley_alloc[k], Zero) > 0

\* C8 (degenerate pool): with total_resources = 0 and non-negative demands,
\* the empty registry included, neither method divides by zero and both
\* return exactly n zeros.
C8_ZeroPool ==
    (total_resources = 0 /\ ValidInputs) =>
        /\ pc # "crashed"
        /\ Allocated => Len(shapley_alloc) = n /\ AllZero(shapley_alloc)
        /\ pc = "done" => Len(prop_alloc) = n /\ AllZero(prop_alloc)

\* both methods have returned for an empty pool and a registry with
\* demand, the case in which line 76 divides
C8_Witness ==
    /\ pc = "done" /\ total_resources = 0 /\ ValidInputs
    /\ n = MaxN /\ TotalDemand > 0

(***************************************************************************)
(* The Shapley value by its definition: the average, over all n! orderings *)
(* of the consumers, of the marginal contribution a consumer makes when it *)
(* joins its predecessors.                                                 *)
(***************************************************************************)
\* the consumers that come before vm_idx in an ordering
Predecessors(order, vm_idx) ==
    SubSeq(order, 1, (CHOOSE k \in 1..Len(order) : order[k] = vm_idx) - 1)

OrderingMarginal(order, vm_idx) ==
    characteristic_function(Members(Predecessors(order, vm_idx) \o <<vm_idx>>))
    - characteristic_function(Members(Predecessors(order, vm_idx)))

\* the sum of OrderingMarginal over the orderings that extend prefix by one
\* of the consumers next..n-1
RECURSIVE OrderingsSum(_, _, _)
OrderingsSum(prefix, next, vm_idx) ==
    IF Len(prefix) = n THEN OrderingMarginal(prefix, vm_idx)
    ELSE IF next = n THEN 0
    ELSE (IF Contains(prefix, next) THEN 0
          ELSE OrderingsSum(prefix \o <<next>>, 0, vm_idx))
         + OrderingsSum(prefix, next + 1, vm_idx)

\* the orderings of k consumers
Orderings(k) ==
    {p \in [1..k -> 0..(k - 1)] : \A a, b \in 1..k : a # b => p[a] # p[b]}

PredecessorSet(order, vm_idx) ==
    {Predecessors(order, vm_idx)[k] : k \in 1..Len(Predecessors(order, vm_idx))}

\* For a registry of k consumers: the weight numerator of every predecessor
\* set S of every consumer counts the orderings in which S is what comes
\* before that consumer.  It depends on k alone and is tabulated.
WeightIsOrderingFraction ==
    [k \in 0..MaxN |->
        \A vm_idx \in 0..(k - 1) :
            \A S \in SUBSET ((0..(k - 1)) \ {vm_idx}) :
                WeightNumer(Cardinality(S), k)
                = Cardinality({p \in Orderings(k) : PredecessorSet(p, vm_idx) = S})]

\* C9 as claimed, on the inputs the contract allows: the value
\* calculate_shapley_values returns for a consumer is exactly the average
\* of its marginal contribution over the n! orderings, that is the float
\* nearest to that average, and the average itself wherever a float can be.
C9_ExactOrderingAverage ==
    (Allocated /\ ValidInputs) =>
        \A j \in 1..n :
            shapley_values[j] = TrueDiv(OrderingsSum(<<>>, 0, j - 1), Factorial(n))

\* C9 (amended): the weights of the enumeration, as the exact fractions
\* numerator / n!, sum to 1 for every consumer, and each predecessor set
\* has the fraction of the n! orderings that produce it; so the weighted
\* sum in exact arithmetic is the average over the orderings.  The float
\* returned is not that average exactly: for non-negative demands and pool
\* it agrees with it within the relative tolerance.
C9_OrderingAverage ==
    Allocated =>
        /\ WeightIsOrderingFraction[n]
        /\ \A j \in 1..n :
            /\ \A cs \in {CoalitionsOf(j - 1)} :
                  SumInt([c \in 1..Len(cs) |-> WeightNumer(Len(cs[c]) - 1, n)])
                  = WeightDenom(n)
            /\ \A average_numer \in {OrderingsSum(<<>>, 0, j - 1)} :
                  /\ shapley_numer[j] = average_numer
                  /\ ValidInputs =>
                        Close(DyMulInt(Factorial(n), shapley_values[j]),
                              FromInt(average_numer))

\* a full registry under scarcity in which the float returned for some
\* consumer is not the exact average
C9_Witness ==
    /\ Allocated /\ ValidInputs /\ n = MaxN /\ TotalDemand > total_resources
    /\ \E j \in 1..n :
          /\ shapley_numer[j] > 0
          /\ DyMulInt(Factorial(n), shapley_values[j]) # FromInt(shapley_numer[j])

\* demand[j] * (1 + 2^-30)
DemandWithTolerance(j) == DyAdd(Demand(j), DyScale(Demand(j), -30))

Scarce == TotalDemand >= total_resources /\ total_resources > 0

\* C10 as claimed: for non-negative demands and pool the Shapley-based
\* allocations sum to min(sum of all demands, total_resources); when the
\* demands sum to at least total_resources > 0, every Shapley value is at
\* most its consumer's demand and the allocation returned is the sequence
\* of Shapley values.
C10_CapKeepsPool ==
    (Allocated /\ ValidInputs) =>
        /\ SumExact(shapley_alloc) = FromInt(FullValue)
        /\ Scarce =>
              /\ \A j \in 1..n : DyLeq(shapley_values[j], Demand(j))
              /\ shapley_alloc = shapley_values

\* C10 (amended): the same, up to the rounding of the float operations:
\* the allocations sum to min(sum of all demands, total_resources) within
\* the relative tolerance, and under scarcity every Shapley value is at
\* most its consumer's demand and every allocation equals its Shapley
\* value, both within the relative tolerance.
C10_CapKeepsPoolRounded ==
    (Allocated /\ ValidInputs) =>
        /\ Close(SumExact(shapley_alloc), FromInt(FullValue))
        /\ Scarce =>
              \A j \in 1..n :
                  /\ DyLeq(shapley_values[j], DemandWithTolerance(j))
                  /\ Close(shapley_alloc[j], shapley_values[j])

\* both branches of the cap have been taken on valid inputs: a scarce pool
\* whose allocations do not sum to it exactly, or a pool larger than the
\* joint demand, where line 94 cuts every share down to the demand
C10_Witness ==
    /\ Allocated /\ ValidInputs /\ n = MaxN
    /\ \/ Scarce /\ SumExact(shapley_alloc) # FromInt(FullValue)
       \/ /\ TotalDemand < total_resources /\ TotalDemand > 0
          /\ \A j \in 1..n : shapley_alloc[j] = Demand(j)

====
